---- MODULE Spec2Model ----
(***************************************************************************)
(* Model of bottom's data-state engine and interaction controller.         *)
(*                                                                         *)
(*   App        (src/src/widgets/mod.rs, impl App)       : the sort-state  *)
(*              machine driven by key commands.                            *)
(*   DataState  (src/src/widgets/mod.rs, impl DataState) : one harvesting  *)
(*              cycle (update_data): refresh, nine harvesters folded into  *)
(*              the stores by push_if_valid / set_if_valid, then the       *)
(*              stale-entry filter over the six timed series.              *)
(*                                                                         *)
(* Two specifications share the variables: SpecApp drives only the App,    *)
(* SpecData drives only the DataState.                                     *)
(***************************************************************************)
EXTENDS Integers, Sequences, FiniteSets, TLC

(***************************************************************************)
(* Bounds of the model.                                                    *)
(***************************************************************************)
\* Number of commands delivered to one App after App::new.
MaxKeys == 3
\* Number of update_data cycles run on one DataState.
MaxCycles == 2
\* The monotonic clock stops advancing at this many ticks.
MaxTime == 2
\* The probe passes a series through the stale-entry filter this many times.
MaxPasses == 2
\* Length of the series handed to the probe, and the latest instant in them.
MaxProbeLen == 2
MaxProbeInstant == 2
\* In one cycle, at most this many harvesters return the outcome (Ok or Err)
\* that the minority of that cycle's harvesters returns.
MaxMinority == 1
\* Clock ticks per second: Instant is finer than the whole seconds as_secs() returns.
TicksPerSec == 2
\* Widget ids the canvas is asked to draw, and the size of the terminal in cells.
MaxWidgets == 2
TermWidth == 2
TermHeight == 1

(***************************************************************************)
(* App : the interaction controller.                                       *)
(***************************************************************************)
\* processes::ProcessSorting, as matched in on_key.
ProcessSorting == {"CPU", "MEM", "PID", "NAME"}

\* Characters handed to on_key: the bound ones, and some that are bound to nothing.
Chars == {"q", "h", "j", "k", "l", "c", "m", "p", "n", "x", "C", " "}

\* Variant of App::new that starts ascending.
App_new_ascending ==
  [ should_quit             |-> FALSE,
    process_sorting_type    |-> "CPU",
    process_sorting_reverse |-> FALSE,
    to_be_resorted          |-> FALSE ]

\* App::new
App_new ==
  [ should_quit             |-> FALSE,
    process_sorting_type    |-> "CPU",
    process_sorting_reverse |-> TRUE,
    to_be_resorted          |-> FALSE ]

\* Variant of on_left that asks for a re-sort.
on_left_resorts(a) == [a EXCEPT !.to_be_resorted = TRUE]

\* The four placeholders: empty bodies.
on_left(a) == a

on_right(a) == a

on_up(a) == a

on_down(a) == a

\* Variant of sort_arm whose same-field branch leaves the direction alone.
sort_arm_no_toggle(a, field, default_reverse) ==
  LET b == IF a.process_sorting_type = field
           THEN a
           ELSE [a EXCEPT !.process_sorting_type = field,
                          !.process_sorting_reverse = default_reverse]
  IN  [b EXCEPT !.to_be_resorted = TRUE]

\* Variant of sort_arm whose other-field branch keeps the previous direction.
sort_arm_keep_reverse(a, field, default_reverse) ==
  LET b == IF a.process_sorting_type = field
           THEN [a EXCEPT !.process_sorting_reverse = ~a.process_sorting_reverse]
           ELSE [a EXCEPT !.process_sorting_type = field]
  IN  [b EXCEPT !.to_be_resorted = TRUE]

\* Variant of sort_arm whose same-field branch sets ascending instead of toggling.
sort_arm_ascending(a, field, default_reverse) ==
  LET b == IF a.process_sorting_type = field
           THEN [a EXCEPT !.process_sorting_reverse = FALSE]
           ELSE [a EXCEPT !.process_sorting_type = field,
                          !.process_sorting_reverse = default_reverse]
  IN  [b EXCEPT !.to_be_resorted = TRUE]

\* One arm 'c' | 'm' | 'p' | 'n' of on_key: the inner match on the current
\* sorting type, then to_be_resorted = true.
sort_arm(a, field, default_reverse) ==
  LET b == IF a.process_sorting_type = field
           THEN [a EXCEPT !.process_sorting_reverse = ~a.process_sorting_reverse]
           ELSE [a EXCEPT !.process_sorting_type = field,
                          !.process_sorting_reverse = default_reverse]
  IN  [b EXCEPT !.to_be_resorted = TRUE]

\* Variant of on_key whose 'q' arm toggles should_quit.
on_key_q_toggles(a, c) ==
  CASE c = "q" -> [a EXCEPT !.should_quit = ~a.should_quit]
    [] c = "h" -> on_right(a)
    [] c = "j" -> on_down(a)
    [] c = "k" -> on_up(a)
    [] c = "l" -> on_left(a)
    [] c = "c" -> sort_arm(a, "CPU", TRUE)
    [] c = "m" -> sort_arm(a, "MEM", TRUE)
    [] c = "p" -> sort_arm(a, "PID", FALSE)
    [] c = "n" -> sort_arm(a, "NAME", FALSE)
    [] OTHER   -> a

\* Variant of on_key whose catch-all arm drops the re-sort request.
on_key_other_clears(a, c) ==
  CASE c = "q" -> [a EXCEPT !.should_quit = TRUE]
    [] c = "h" -> on_right(a)
    [] c = "j" -> on_down(a)
    [] c = "k" -> on_up(a)
    [] c = "l" -> on_left(a)
    [] c = "c" -> sort_arm(a, "CPU", TRUE)
    [] c = "m" -> sort_arm(a, "MEM", TRUE)
    [] c = "p" -> sort_arm(a, "PID", FALSE)
    [] c = "n" -> sort_arm(a, "NAME", FALSE)
    [] OTHER   -> [a EXCEPT !.to_be_resorted = FALSE]

\* App::on_key
on_key(a, c) ==
  CASE c = "q" -> [a EXCEPT !.should_quit = TRUE]
    [] c = "h" -> on_right(a)
    [] c = "j" -> on_down(a)
    [] c = "k" -> on_up(a)
    [] c = "l" -> on_left(a)
    [] c = "c" -> sort_arm(a, "CPU", TRUE)
    [] c = "m" -> sort_arm(a, "MEM", TRUE)
    [] c = "p" -> sort_arm(a, "PID", FALSE)
    [] c = "n" -> sort_arm(a, "NAME", FALSE)
    [] OTHER   -> a

(***************************************************************************)
(* DataState : one harvesting cycle.                                       *)
(***************************************************************************)
\* The fields of struct Data, in the order update_data harvests them.
HarvestOrder ==
  << "network", "list_of_cpu_packages", "memory", "swap", "list_of_processes",
     "list_of_disks", "list_of_io", "list_of_physical_io", "list_of_temperature" >>

Domains == { HarvestOrder[i] : i \in 1..Len(HarvestOrder) }

\* Fields update_data feeds through push_if_valid and filters for stale entries.
TimedDomains ==
  { "network", "list_of_cpu_packages", "memory", "swap", "list_of_io", "list_of_physical_io" }

\* Fields update_data feeds through set_if_valid.
SlotDomains == { "list_of_processes", "list_of_disks", "list_of_temperature" }

\* Data::default() : every Vec empty.
Data_default == [ d \in Domains |-> <<>> ]

\* DataState::default().stale_max_seconds
DefaultStaleMaxSeconds == 60

\* Values handed to set_stale_max_seconds.
Retentions == {0, DefaultStaleMaxSeconds}

\* Lists a slot harvester can return: an empty one and a non-empty one.
SlotValues == { <<>>, <<"x">> }

\* Result<T, heim::Error>
Ok(v) == [ok |-> TRUE, done |-> TRUE, value |-> v]

Err == [ok |-> FALSE, done |-> TRUE]

\* The harvester of a field has not run yet in this cycle.
Pending == [ok |-> FALSE, done |-> FALSE]

\* What the harvester of domain d can return at instant now: a timed harvester
\* stamps its sample with the instant it was taken at.
HarvestResults(d, now) ==
  IF d \in TimedDomains
  THEN { Ok([instant |-> now]), Err }
  ELSE { Ok(v) : v \in SlotValues } \cup { Err }

\* Variant of set_if_valid that resets the slot when the harvest failed.
set_if_valid_resets(result, value_to_set) ==
  IF result.ok THEN result.value ELSE <<>>

\* set_if_valid
set_if_valid(result, value_to_set) ==
  IF result.ok THEN result.value ELSE value_to_set

\* Variant of push_if_valid that repeats the newest entry when the harvest failed.
push_if_valid_repeats(result, vector_to_push) ==
  IF result.ok THEN Append(vector_to_push, result.value)
  ELSE IF vector_to_push = <<>> THEN vector_to_push
  ELSE Append(vector_to_push, vector_to_push[Len(vector_to_push)])

\* Variant of push_if_valid that inserts at the front.
push_if_valid_front(result, vector_to_push) ==
  IF result.ok THEN << result.value >> \o vector_to_push ELSE vector_to_push

\* Variant of push_if_valid that drops the history when the harvest failed.
push_if_valid_clears(result, vector_to_push) ==
  IF result.ok THEN Append(vector_to_push, result.value) ELSE <<>>

\* push_if_valid
push_if_valid(result, vector_to_push) ==
  IF result.ok THEN Append(vector_to_push, result.value) ELSE vector_to_push

\* One harvest statement of update_data: the domain's result folded into its field.
fold_result(d, result, dat) ==
  IF d \in TimedDomains
  THEN [dat EXCEPT ![d] = push_if_valid(result, dat[d])]
  ELSE [dat EXCEPT ![d] = set_if_valid(result, dat[d])]

\* Instant::duration_since, for an earlier instant that is not later than self.
duration_since(later, earlier) == later - earlier

\* Duration::as_secs : whole seconds, the fraction dropped.
as_secs(d) == d \div TicksPerSec

\* Variant of the filter predicate that compares with < .
is_fresh_strict(entry, current_instant, stale_max_seconds) ==
  as_secs(duration_since(current_instant, entry.instant)) < stale_max_seconds

\* The predicate of the six filters.
is_fresh(entry, current_instant, stale_max_seconds) ==
  as_secs(duration_since(current_instant, entry.instant)) <= stale_max_seconds

\* Variant of one pass that also drops the oldest entry it kept.
filter_stale_pop(vec, current_instant, stale_max_seconds) ==
  LET keep(entry) == is_fresh(entry, current_instant, stale_max_seconds)
      kept == SelectSeq(vec, keep)
  IN  IF kept = <<>> THEN kept ELSE Tail(kept)

\* One .iter().cloned().filter(..).collect() pass.
filter_stale(vec, current_instant, stale_max_seconds) ==
  LET keep(entry) == is_fresh(entry, current_instant, stale_max_seconds)
  IN  SelectSeq(vec, keep)

\* Variant of the six passes in which the swap pass is missing.
filter_all_skips_swap(dat, current_instant, stale_max_seconds) ==
  [ d \in Domains |->
      IF d \in TimedDomains \ {"swap"}
      THEN filter_stale(dat[d], current_instant, stale_max_seconds)
      ELSE dat[d] ]

\* "Filter out stale timed entries": the six passes of update_data.
filter_all(dat, current_instant, stale_max_seconds) ==
  [ d \in Domains |->
      IF d \in TimedDomains
      THEN filter_stale(dat[d], current_instant, stale_max_seconds)
      ELSE dat[d] ]

\* DataState::default() : prev_pid_stats, prev_idle, prev_non_idle.
Delta_default == [prev_pid_stats |-> <<>>, prev_idle |-> 0, prev_non_idle |-> 0]

\* Variant of the process harvester that moves the baseline on every attempt.
get_sorted_processes_list_always(prev, result, now) ==
  [ prev_pid_stats |-> IF result.ok THEN result.value ELSE <<>>,
    prev_idle      |-> now,
    prev_non_idle  |-> now ]

\* What processes::get_sorted_processes_list does to the three fields it borrows
\* mutably: a harvest that succeeds rebuilds the map from the processes it saw
\* and stores the cumulative tick counters it read (they grow with the clock);
\* a harvest that fails leaves the three fields alone.
get_sorted_processes_list(prev, result, now) ==
  IF result.ok
  THEN [ prev_pid_stats |-> result.value, prev_idle |-> now, prev_non_idle |-> now ]
  ELSE prev

\* Variant of the statement order in which the last harvester is never called.
AfterHarvest_skips_last(d) ==
  LET i == CHOOSE j \in 1..Len(HarvestOrder) : HarvestOrder[j] = d
  IN  IF i + 1 < Len(HarvestOrder) THEN HarvestOrder[i + 1] ELSE "filter"

\* The statement that follows the harvest of HarvestOrder[i].
AfterHarvest(d) ==
  LET i == CHOOSE j \in 1..Len(HarvestOrder) : HarvestOrder[j] = d
  IN  IF i < Len(HarvestOrder) THEN HarvestOrder[i + 1] ELSE "filter"

\* Variant of update_data that returns as soon as a harvester fails.
next_statement_bails(d, result) ==
  IF result.ok THEN AfterHarvest(d) ELSE "idle"

\* Where update_data continues after the harvest statement of d: the result is
\* only borrowed by push_if_valid / set_if_valid, nothing returns early.
next_statement(d, result) == AfterHarvest(d)

\* Variant of the filter instant: the instant the cycle was entered at.
filter_instant_at_start(start, now) == start

\* let current_instant = Instant::now(), taken after the last harvester.
filter_instant(start, now) == now

\* Where the model lets the clock advance: between cycles, at the first .await
\* of the harvest phase, and between the last harvester and the filter.
TickPoints == {"idle", "memory", "filter"}

\* Series handed to the probe: chronological, as push_if_valid builds them.
ProbeSeries ==
  LET Samples == { [instant |-> t] : t \in 0..MaxProbeInstant }
      Seqs == UNION { [1..n -> Samples] : n \in 0..MaxProbeLen }
  IN  { q \in Seqs : \A i \in 1..(Len(q) - 1) : q[i].instant <= q[i + 1].instant }

\* Instants the probe filters at: early ones, and the ones around the default
\* retention for a sample taken at 0 (59 s, 60 s, one tick past 60 s, 61 s).
ProbeNows ==
  (0..MaxProbeInstant) \cup
  { (DefaultStaleMaxSeconds - 1) * TicksPerSec, DefaultStaleMaxSeconds * TicksPerSec,
    DefaultStaleMaxSeconds * TicksPerSec + 1, (DefaultStaleMaxSeconds + 1) * TicksPerSec }

\* Retentions the probe filters with.
ProbeRetentions == {0, 1, DefaultStaleMaxSeconds}

\* The probe before a series was chosen.
NoProbe == [chosen |-> FALSE, series |-> <<>>, now |-> 0, retention |-> 0, outs |-> <<>>]

\* Nothing harvested yet in this cycle.
NoResults == [ d \in Domains |-> Pending ]

\* System::new() : no view refreshed yet.
System_new == [system |-> -1, network |-> -1]

\* refresh_system(); refresh_network() : both views now show the instant now.
refresh(now) == [system |-> now, network |-> now]

\* The outcomes of one cycle stay within MaxMinority.
WithinMinority(res) ==
  LET oks  == Cardinality({ d \in Domains : res[d].done /\ res[d].ok })
      errs == Cardinality({ d \in Domains : res[d].done /\ ~res[d].ok })
  IN  oks <= MaxMinority \/ errs <= MaxMinority

(***************************************************************************)
(* Painter::draw_basic_network : the widget-bounds write-back.             *)
(***************************************************************************)
\* Option<(u16, u16)>.
None == [some |-> FALSE]

Some(v) == [some |-> TRUE, value |-> v]

\* u64 widget ids.
WidgetIds == 1..MaxWidgets

\* tui Rects that lie within the terminal, so x + width and y + height stay
\* within the terminal and within u16.
Rects ==
  { [x |-> x, y |-> y, width |-> w, height |-> h] :
      x \in 0..TermWidth, y \in 0..TermHeight, w \in 0..TermWidth, h \in 0..TermHeight }

DrawLocs == { r \in Rects : r.x + r.width <= TermWidth /\ r.y + r.height <= TermHeight }

\* A widget_map entry whose corners were never written.
Widget_unplaced == [top_left_corner |-> None, bottom_right_corner |-> None]

\* The maps a layout can start with: any set of the widget ids, corners unset.
LaidOutMaps == { [ w \in ids |-> Widget_unplaced ] : ids \in SUBSET WidgetIds }

NoDraw == [called |-> FALSE]

\* Variant of the write-back that creates the entry when there is none.
update_draw_loc_inserts(map, get_bounds, draw_loc, widget_id) ==
  LET widget ==
        [top_left_corner |-> Some(<< draw_loc.x, draw_loc.y >>),
         bottom_right_corner |->
           Some(<< draw_loc.x + draw_loc.width, draw_loc.y + draw_loc.height >>)]
  IN  IF get_bounds
      THEN [ w \in DOMAIN map \cup {widget_id} |->
               IF w = widget_id THEN widget ELSE map[w] ]
      ELSE map

\* "Update draw loc in widget map": get_bounds is what should_get_widget_bounds()
\* returned; get_mut yields the entry only when the map has one for widget_id.
update_draw_loc(map, get_bounds, draw_loc, widget_id) ==
  IF get_bounds /\ widget_id \in DOMAIN map
  THEN [map EXCEPT
          ![widget_id].top_left_corner = Some(<< draw_loc.x, draw_loc.y >>),
          ![widget_id].bottom_right_corner =
            Some(<< draw_loc.x + draw_loc.width, draw_loc.y + draw_loc.height >>)]
  ELSE map

VARIABLES
  app,      \* the App struct
  keylog,   \* the calls made on app since App::new, each with the state it found
  data,               \* DataState.data
  stale_max_seconds,  \* DataState.stale_max_seconds
  sys,                \* DataState.sys : the instant each view was last refreshed at
  pc,                 \* the statement update_data is at, "idle" between cycles
  clock,              \* what Instant::now() returns, in ticks
  cycles,             \* update_data cycles completed
  current_instant,    \* the local current_instant of the last filter pass
  filtered_with,      \* the stale_max_seconds the last filter pass read
  cycle_start,        \* the clock when the latest cycle was entered
  snapshot,           \* data as the latest cycle found it
  results,            \* what each harvester of the latest cycle returned
  last_ok,            \* per slot domain, the value of its last successful harvest
  evicted,            \* per timed domain, how many entries the last filter pass dropped
  delta,              \* DataState.prev_pid_stats, prev_idle, prev_non_idle
  probe,              \* a series under the stale-entry filter, outside any cycle
  widget_map,         \* app_state.widget_map of the canvas
  last_draw           \* the latest draw_basic_network call, with the map it found

appvars == <<app, keylog>>

datavars ==
  << data, stale_max_seconds, sys, pc, clock, cycles, current_instant, filtered_with,
     cycle_start, snapshot, results, last_ok, evicted, delta >>

probevars == <<probe>>

drawvars == <<widget_map, last_draw>>

vars == <<appvars, datavars, probevars, drawvars>>

Call(fn, c) == [fn |-> fn, c |-> c, pre |-> app]

OnKey ==
  /\ Len(keylog) < MaxKeys
  /\ \E c \in Chars :
       /\ app' = on_key(app, c)
       /\ keylog' = Append(keylog, Call("on_key", c))
  /\ UNCHANGED << datavars, probevars, drawvars >>

OnLeft ==
  /\ Len(keylog) < MaxKeys
  /\ app' = on_left(app)
  /\ keylog' = Append(keylog, Call("on_left", "-"))
  /\ UNCHANGED << datavars, probevars, drawvars >>

OnRight ==
  /\ Len(keylog) < MaxKeys
  /\ app' = on_right(app)
  /\ keylog' = Append(keylog, Call("on_right", "-"))
  /\ UNCHANGED << datavars, probevars, drawvars >>

OnUp ==
  /\ Len(keylog) < MaxKeys
  /\ app' = on_up(app)
  /\ keylog' = Append(keylog, Call("on_up", "-"))
  /\ UNCHANGED << datavars, probevars, drawvars >>

OnDown ==
  /\ Len(keylog) < MaxKeys
  /\ app' = on_down(app)
  /\ keylog' = Append(keylog, Call("on_down", "-"))
  /\ UNCHANGED << datavars, probevars, drawvars >>

(***************************************************************************)
(* DataState actions.                                                      *)
(***************************************************************************)
\* Variant of the setter that filters the stored series at once.
SetStaleMaxSeconds_filters ==
  /\ pc = "idle"
  /\ \E s \in Retentions :
       /\ s # stale_max_seconds
       /\ stale_max_seconds' = s
       /\ data' = filter_all(data, clock, s)
  /\ UNCHANGED << appvars, probevars, drawvars, sys, pc, clock, cycles,
                  current_instant, filtered_with, cycle_start, snapshot, results,
                  last_ok, evicted, delta >>

\* DataState::set_stale_max_seconds. update_data borrows the DataState mutably
\* for the whole cycle, so the setter runs between cycles only.
SetStaleMaxSeconds ==
  /\ pc = "idle"
  /\ \E s \in Retentions :
       /\ s # stale_max_seconds
       /\ stale_max_seconds' = s
  /\ UNCHANGED << appvars, probevars, drawvars, data, sys, pc, clock, cycles,
                  current_instant, filtered_with, cycle_start, snapshot, results,
                  last_ok, evicted, delta >>

\* DataState::init, called once, before the first cycle.
InitCall ==
  /\ pc = "idle"
  /\ cycles = 0
  /\ sys = System_new
  /\ sys' = refresh(clock)
  /\ UNCHANGED << appvars, probevars, drawvars, data, stale_max_seconds, pc, clock,
                  cycles, current_instant, filtered_with, cycle_start, snapshot,
                  results, last_ok, evicted, delta >>

\* update_data, entry: refresh_system, refresh_network.
UpdateRefresh ==
  /\ pc = "idle"
  /\ cycles < MaxCycles
  /\ sys' = refresh(clock)
  /\ pc' = HarvestOrder[1]
  /\ cycle_start' = clock
  /\ snapshot' = data
  /\ results' = NoResults
  /\ UNCHANGED << appvars, probevars, drawvars, data, stale_max_seconds, clock,
                  cycles, current_instant, filtered_with, last_ok, evicted, delta >>

\* update_data, one harvest statement: the harvester runs and its result is
\* handed to push_if_valid or set_if_valid.
Harvest ==
  /\ pc \in Domains
  /\ \E r \in HarvestResults(pc, clock) :
       /\ results' = [results EXCEPT ![pc] = r]
       /\ WithinMinority(results')
       /\ data' = fold_result(pc, r, data)
       /\ last_ok' = IF pc \in SlotDomains /\ r.ok
                     THEN [last_ok EXCEPT ![pc] = r.value]
                     ELSE last_ok
       /\ delta' = IF pc = "list_of_processes"
                   THEN get_sorted_processes_list(delta, r, clock)
                   ELSE delta
  /\ \E r \in {results'[pc]} : pc' = next_statement(pc, r)
  /\ UNCHANGED << appvars, probevars, drawvars, stale_max_seconds, sys, clock,
                  cycles, current_instant, filtered_with, cycle_start, snapshot,
                  evicted >>

\* update_data, the tail: current_instant = Instant::now(), then the six filters.
FilterStale ==
  /\ pc = "filter"
  /\ current_instant' = filter_instant(cycle_start, clock)
  /\ filtered_with' = stale_max_seconds
  /\ data' = filter_all(data, current_instant', stale_max_seconds)
  /\ pc' = "idle"
  /\ cycles' = cycles + 1
  /\ evicted' = [ d \in TimedDomains |-> Len(data[d]) - Len(data'[d]) ]
  /\ UNCHANGED << appvars, probevars, drawvars, stale_max_seconds, sys, clock,
                  cycle_start, snapshot, results, last_ok, delta >>

\* Time passes: between cycles, and inside a cycle while a harvester runs.
Tick ==
  /\ pc \in TickPoints
  /\ clock < MaxTime
  /\ clock' = clock + 1
  /\ UNCHANGED << appvars, probevars, drawvars, data, stale_max_seconds, sys, pc,
                  cycles, current_instant, filtered_with, cycle_start, snapshot,
                  results, last_ok, evicted, delta >>

InitApp ==
  /\ app = App_new
  /\ keylog = <<>>

\* DataState::default()
InitData ==
  /\ data = Data_default
  /\ stale_max_seconds = DefaultStaleMaxSeconds
  /\ sys = System_new
  /\ pc = "idle"
  /\ clock = 0
  /\ cycles = 0
  /\ current_instant = 0
  /\ filtered_with = DefaultStaleMaxSeconds
  /\ cycle_start = 0
  /\ snapshot = Data_default
  /\ results = NoResults
  /\ last_ok = [ d \in SlotDomains |-> <<>> ]
  /\ evicted = [ d \in TimedDomains |-> 0 ]
  /\ delta = Delta_default

\* No series is under the filter outside a cycle.
InitProbe == probe = NoProbe

\* No widget is laid out and nothing was drawn.
InitDraw ==
  /\ widget_map = << >>
  /\ last_draw = NoDraw

\* Some widgets are laid out, their corners not yet determined; nothing was drawn.
InitLaidOut ==
  /\ widget_map \in LaidOutMaps
  /\ last_draw = NoDraw

(***************************************************************************)
(* The stale-entry filter on its own.                                      *)
(***************************************************************************)
\* A series, the instant current_instant and a retention are picked.
ProbeChoose ==
  /\ ~probe.chosen
  /\ \E q \in ProbeSeries, now \in ProbeNows, r \in ProbeRetentions :
       /\ \A i \in 1..Len(q) : q[i].instant <= now
       /\ probe' = [chosen |-> TRUE, series |-> q, now |-> now, retention |-> r,
                    outs |-> <<>>]
  /\ UNCHANGED << appvars, datavars, drawvars >>

\* One filter pass over what the previous pass left (the first over the series).
ProbePrune ==
  /\ probe.chosen
  /\ Len(probe.outs) < MaxPasses
  /\ LET input == IF probe.outs = <<>> THEN probe.series
                   ELSE probe.outs[Len(probe.outs)]
     IN  probe' = [probe EXCEPT
                     !.outs = Append(@, filter_stale(input, probe.now, probe.retention))]
  /\ UNCHANGED << appvars, datavars, drawvars >>

Init == InitApp /\ InitData /\ InitProbe /\ InitDraw

\* As Init, with a laid-out canvas.
InitCanvas == InitApp /\ InitData /\ InitProbe /\ InitLaidOut

NextApp == OnKey \/ OnLeft \/ OnRight \/ OnUp \/ OnDown

NextData ==
  SetStaleMaxSeconds \/ InitCall \/ UpdateRefresh \/ Harvest \/ FilterStale \/ Tick

\* Only the App is driven.
SpecApp == Init /\ [][NextApp]_vars

\* Only the DataState is driven.
SpecData == Init /\ [][NextData]_vars

NextProbe == ProbeChoose \/ ProbePrune

\* Only the filter probe is driven.
SpecProbe == Init /\ [][NextProbe]_vars

\* Painter::draw_basic_network. The layout splits and the render_widget calls
\* write to the frame only; of app_state they read current_widget and
\* converted_data and write widget_map.
DrawBasicNetwork ==
  /\ \E widget_id \in WidgetIds, draw_loc \in DrawLocs, get_bounds \in BOOLEAN :
       /\ widget_map' = update_draw_loc(widget_map, get_bounds, draw_loc, widget_id)
       /\ last_draw' = [called |-> TRUE, widget_id |-> widget_id, draw_loc |-> draw_loc,
                        should_get_widget_bounds |-> get_bounds, before |-> widget_map]
  /\ UNCHANGED << appvars, datavars, probevars >>

NextDraw == DrawBasicNetwork

\* Only the canvas is driven.
SpecDraw == InitCanvas /\ [][NextDraw]_vars

(***************************************************************************)
(* Properties of the interaction controller (checked under SpecApp).       *)
(***************************************************************************)
\* The sort keys and, per key, the field and the default direction the
\* transition table of the design gives it.
SortKeys == {"c", "m", "p", "n"}

KeyField(c) ==
  CASE c = "c" -> "CPU" [] c = "m" -> "MEM" [] c = "p" -> "PID" [] c = "n" -> "NAME"

KeyDefaultReverse(c) == c \in {"c", "m"}

\* The App as call number i of keylog left it.
After(i) == IF i < Len(keylog) THEN keylog[i + 1].pre ELSE app

Calls == 1..Len(keylog)

IsSortPress(i) == keylog[i].fn = "on_key" /\ keylog[i].c \in SortKeys

SameFieldPress(i) ==
  IsSortPress(i) /\ keylog[i].pre.process_sorting_type = KeyField(keylog[i].c)

OtherFieldPress(i) ==
  IsSortPress(i) /\ keylog[i].pre.process_sorting_type # KeyField(keylog[i].c)

\* C1: a sort key pressed while its field is already the sorting type leaves
\* the sorting type, negates process_sorting_reverse and leaves to_be_resorted true.
C1_SameFieldToggles ==
  \A i \in Calls :
    SameFieldPress(i) =>
      /\ After(i).process_sorting_type = keylog[i].pre.process_sorting_type
      /\ After(i).process_sorting_reverse = ~keylog[i].pre.process_sorting_reverse
      /\ After(i).to_be_resorted = TRUE

\* Same-field presses of all four keys, from both directions, have happened
\* somewhere in the explored runs; this one is a PID press that found reverse = TRUE.
C1_Witness ==
  \E i \in Calls :
    /\ SameFieldPress(i)
    /\ keylog[i].c = "p"
    /\ keylog[i].pre.process_sorting_reverse = TRUE

\* C2: a sort key pressed while another field is the sorting type sets the
\* sorting type to the key's field, process_sorting_reverse to the key's default
\* (true for CPU and MEM, false for PID and NAME) whatever it was, and
\* to_be_resorted to true.
C2_OtherFieldDefaults ==
  \A i \in Calls :
    OtherFieldPress(i) =>
      /\ After(i).process_sorting_type = KeyField(keylog[i].c)
      /\ After(i).process_sorting_reverse = KeyDefaultReverse(keylog[i].c)
      /\ After(i).to_be_resorted = TRUE

\* A switch to MEM (default descending) that found the direction ascending.
C2_Witness ==
  \E i \in Calls :
    /\ OtherFieldPress(i)
    /\ keylog[i].c = "m"
    /\ keylog[i].pre.process_sorting_reverse = FALSE

\* Calls i and i+1 press the same sort key.
DoublePress(i) ==
  /\ i + 1 \in Calls
  /\ IsSortPress(i)
  /\ IsSortPress(i + 1)
  /\ keylog[i].c = keylog[i + 1].c

\* C3 as stated: from any state and for any sort key, two presses in succession
\* leave process_sorting_reverse as it was before the first.
C3_Original ==
  \A i \in Calls :
    DoublePress(i) =>
      After(i + 1).process_sorting_reverse = keylog[i].pre.process_sorting_reverse

\* C3 amended: two presses of a sort key in succession restore
\* process_sorting_reverse when the key's field was already the sorting type
\* before the first press; when it was another field they leave the negation of
\* the key's default direction.
C3_DoublePress ==
  \A i \in Calls :
    DoublePress(i) =>
      IF SameFieldPress(i)
      THEN After(i + 1).process_sorting_reverse = keylog[i].pre.process_sorting_reverse
      ELSE After(i + 1).process_sorting_reverse = ~KeyDefaultReverse(keylog[i].c)

\* A double press on the current field and a double press on another field,
\* the latter ending away from where it started.
C3_Witness ==
  /\ Len(keylog) = 2
  /\ DoublePress(1)
  /\ OtherFieldPress(1)
  /\ app.process_sorting_reverse # keylog[1].pre.process_sorting_reverse

\* C4: no call on the App clears to_be_resorted: a call that finds it true
\* leaves it true.
C4_DirtyNeverCleared ==
  \A i \in Calls :
    keylog[i].pre.to_be_resorted => After(i).to_be_resorted

\* to_be_resorted was set, then a key bound to nothing and a navigation call followed.
C4_Witness ==
  /\ Len(keylog) = 3
  /\ keylog[2].pre.to_be_resorted
  /\ keylog[2].fn = "on_key" /\ keylog[2].c = "x"
  /\ keylog[3].fn = "on_up"

\* C5: on_key('q') sets should_quit and leaves the sorting type, the direction
\* and to_be_resorted alone; once should_quit is true every later call leaves
\* it true.
C5_QuitTerminal ==
  \A i \in Calls :
    /\ (keylog[i].fn = "on_key" /\ keylog[i].c = "q") =>
         /\ After(i).should_quit = TRUE
         /\ After(i).process_sorting_type = keylog[i].pre.process_sorting_type
         /\ After(i).process_sorting_reverse = keylog[i].pre.process_sorting_reverse
         /\ After(i).to_be_resorted = keylog[i].pre.to_be_resorted
    /\ keylog[i].pre.should_quit => After(i).should_quit

\* 'q', then 'q' again, then a sort key.
C5_Witness ==
  /\ Len(keylog) = 3
  /\ keylog[1].c = "q"
  /\ keylog[2].c = "q"
  /\ keylog[3].c = "n"
  /\ app.should_quit

IsNoOpCall(i) ==
  \/ keylog[i].fn \in {"on_left", "on_right", "on_up", "on_down"}
  \/ keylog[i].fn = "on_key" /\ keylog[i].c \notin (SortKeys \cup {"q"})

\* C6: on_key with 'h', 'j', 'k', 'l' or any character other than q, c, m, p, n,
\* and the direct calls on_left, on_right, on_up, on_down, leave every field of
\* the App as it was.
C6_NavigationNoOp ==
  \A i \in Calls : IsNoOpCall(i) => After(i) = keylog[i].pre

\* After a sort key: 'l' (which calls on_left), then a direct on_down.
C6_Witness ==
  /\ Len(keylog) = 3
  /\ IsSortPress(1)
  /\ keylog[2].fn = "on_key" /\ keylog[2].c = "l"
  /\ keylog[3].fn = "on_down"
  /\ app.to_be_resorted

\* The characters of the on_key calls made so far, when every call was on_key.
KeysPressed ==
  [ i \in Calls |-> IF keylog[i].fn = "on_key" THEN keylog[i].c ELSE "-" ]

SortState(a) ==
  << a.process_sorting_type, a.process_sorting_reverse, a.to_be_resorted >>

\* C7: from App::new (CPU, reverse, not dirty, not quitting), 'c' gives
\* (CPU, reverse = false, dirty) and a following 'p' gives (PID, reverse = false, dirty).
C7_Scenario ==
  /\ keylog = <<>> => app = [ should_quit |-> FALSE, process_sorting_type |-> "CPU",
                             process_sorting_reverse |-> TRUE, to_be_resorted |-> FALSE ]
  /\ (Len(keylog) >= 1 /\ KeysPressed[1] = "c") =>
        SortState(After(1)) = << "CPU", FALSE, TRUE >>
  /\ (Len(keylog) >= 2 /\ KeysPressed[1] = "c" /\ KeysPressed[2] = "p") =>
        SortState(After(2)) = << "PID", FALSE, TRUE >>

\* 'c' then 'p' were pressed on a new App.
C7_Witness ==
  /\ Len(keylog) = 2
  /\ KeysPressed = << "c", "p" >>
  /\ app.process_sorting_type = "PID"

(***************************************************************************)
(* Properties of the harvesting cycle (checked under SpecData).            *)
(***************************************************************************)
\* What the field d must hold inside a cycle, given what the cycle found in it
\* and what the harvester of d returned, if it ran already.
ExpectedField(d) ==
  IF ~results[d].ok
  THEN snapshot[d]
  ELSE IF d \in TimedDomains
       THEN snapshot[d] \o << results[d].value >>
       ELSE results[d].value

Failed == { d \in Domains : results[d].done /\ ~results[d].ok }

Succeeded == { d \in Domains : results[d].done /\ results[d].ok }

\* C8: throughout the harvest phase of a cycle, and at its end, a field whose
\* harvester failed (or has not run yet) is exactly what the cycle found, a timed
\* field whose harvester succeeded is what the cycle found plus the new sample,
\* and a slot field whose harvester succeeded is the harvested value; whatever
\* the other harvesters returned.
C8_PartialFailureIsolation ==
  pc # "idle" => \A d \in Domains : data[d] = ExpectedField(d)

\* The end of the harvest phase of a second cycle in which only the memory
\* harvester failed, on a non-empty memory series.
C8_Witness ==
  /\ pc = "filter"
  /\ cycles = 1
  /\ Failed = {"memory"}
  /\ snapshot["memory"] # <<>>
  /\ data["memory"] = snapshot["memory"]
  /\ Len(data["swap"]) = Len(snapshot["swap"]) + 1

\* C9: a slot field always holds the value of its most recent successful
\* harvest, or the default while there was none: a failed harvest and the
\* filter pass leave it alone.
C9_SlotsHoldLastSuccess ==
  \A d \in SlotDomains : data[d] = last_ok[d]

\* After one full cycle (filter pass included): the process harvest fails on a
\* filled slot and the disk harvest replaces a filled slot by an empty list.
C9_Witness ==
  /\ pc = "filter"
  /\ cycles = 1
  /\ snapshot["list_of_processes"] = << "x" >>
  /\ "list_of_processes" \in Failed
  /\ data["list_of_processes"] = << "x" >>
  /\ snapshot["list_of_disks"] = << "x" >>
  /\ "list_of_disks" \in Succeeded
  /\ data["list_of_disks"] = <<>>

\* The entries of the timed series after the last filter pass, with their age
\* in ticks at the instant that pass used.
AgesAfterFilter ==
  UNION { { current_instant - data[d][i].instant : i \in 1..Len(data[d]) } :
            d \in TimedDomains }

\* Between two cycles, after at least one.
CycleEnded == pc = "idle" /\ cycles > 0

\* C10 as stated: at the end of a cycle the age of every remaining sample is at
\* most the retention.
C10_Original ==
  CycleEnded => \A age \in AgesAfterFilter : age <= filtered_with * TicksPerSec

\* C10 amended: at the end of a cycle the age of every remaining sample,
\* truncated to whole seconds, is at most the retention; the age itself is
\* below retention + 1 s.
C10_AgeInvariant ==
  CycleEnded =>
    \A age \in AgesAfterFilter :
      /\ age \div TicksPerSec <= filtered_with
      /\ age < (filtered_with + 1) * TicksPerSec

\* A filter pass with retention 0 dropped an entry and kept one that is older
\* than 0 s.
C10_Witness ==
  /\ CycleEnded
  /\ filtered_with = 0
  /\ \E d \in TimedDomains : evicted[d] > 0
  /\ \E age \in AgesAfterFilter : age > 0

\* The instants of a series are in non-decreasing order.
Chronological(q) == \A i \in 1..(Len(q) - 1) : q[i].instant <= q[i + 1].instant

\* q is p with some entries removed, the others in the order p has them.
RECURSIVE IsSubSeq(_, _)
IsSubSeq(q, p) ==
  IF q = <<>> THEN TRUE
  ELSE IF p = <<>> THEN FALSE
  ELSE IF Head(q) = Head(p) THEN IsSubSeq(Tail(q), Tail(p))
  ELSE IsSubSeq(q, Tail(p))

\* C11: every timed series is in chronological (non-decreasing instant) order in
\* every state; inside a cycle a successful harvest's sample is the last entry;
\* and what a filter pass leaves is what the harvest phase left with entries
\* removed and the order of the others unchanged.
C11_OrderPreserved ==
  \A d \in TimedDomains :
    /\ Chronological(data[d])
    /\ (pc # "idle" /\ results[d].ok) =>
          /\ data[d] # <<>>
          /\ data[d][Len(data[d])] = results[d].value
    /\ CycleEnded => IsSubSeq(data[d], ExpectedField(d))

\* A second cycle ended: its filter pass dropped the older network entry and
\* kept two memory entries of different instants.
C11_Witness ==
  /\ CycleEnded
  /\ evicted["network"] = 1
  /\ Len(data["network"]) = 1
  /\ Len(data["memory"]) = 2
  /\ data["memory"][1].instant < data["memory"][2].instant

(***************************************************************************)
(* Properties of the stale-entry filter (checked under SpecProbe).         *)
(***************************************************************************)
\* C12: for a fixed instant and retention, every further filter pass returns
\* what the first pass returned.
C12_IdempotentPruning ==
  \A i \in 1..(Len(probe.outs) - 1) : probe.outs[i + 1] = probe.outs[i]

\* Two passes over a series of which the first pass dropped one entry and kept one.
C12_Witness ==
  /\ Len(probe.outs) = 2
  /\ Len(probe.series) = 2
  /\ Len(probe.outs[1]) = 1

\* The age of entry e at the probe's instant, in whole seconds.
ProbeAgeSecs(e) == (probe.now - e.instant) \div TicksPerSec

\* The probe's series is one sample taken at 0, filtered with retention r at
\* instant now (in ticks).
OneSampleAtZero(r, now) ==
  /\ probe.series = << [instant |-> 0] >>
  /\ probe.retention = r
  /\ probe.now = now
  /\ probe.outs # <<>>

\* C17: a filter pass keeps exactly the entries whose age in whole seconds is
\* at most the retention, and the default retention is 60: with retention 60 a
\* sample taken at 0 is kept at 59 s, at 60 s and between 60 s and 61 s, and
\* dropped at 61 s.
C17_RetentionBoundary ==
  /\ stale_max_seconds = 60
  /\ probe.outs # <<>> =>
       LET keep(e) == ProbeAgeSecs(e) <= probe.retention
       IN  probe.outs[1] = SelectSeq(probe.series, keep)
  /\ OneSampleAtZero(60, 59 * TicksPerSec) => probe.outs[1] = probe.series
  /\ OneSampleAtZero(60, 60 * TicksPerSec) => probe.outs[1] = probe.series
  /\ OneSampleAtZero(60, 60 * TicksPerSec + 1) => probe.outs[1] = probe.series
  /\ OneSampleAtZero(60, 61 * TicksPerSec) => probe.outs[1] = <<>>

\* The sample taken at 0 went through the filter one tick past 60 s.
C17_Witness ==
  /\ OneSampleAtZero(60, 60 * TicksPerSec + 1)
  /\ probe.outs[1] = probe.series

\* The entries of q whose age at instant now, in whole seconds, is at most r.
KeptAt(q, now, r) ==
  SelectSeq(q, LAMBDA e : (now - e.instant) \div TicksPerSec <= r)

\* A cycle has been entered and control is back between cycles.
CycleReturned == pc = "idle" /\ \E d \in Domains : results[d].done

\* The instants of the samples the harvest phase of the current cycle appended.
HarvestedInstants ==
  { results[d].value.instant : d \in TimedDomains \cap Succeeded }

\* C13 as stated: at the end of a cycle every timed series is what the harvest
\* phase left, kept or evicted by age at the instant the cycle started.
C13_Original ==
  CycleEnded =>
    \A d \in TimedDomains :
      data[d] = KeptAt(ExpectedField(d), cycle_start, filtered_with)

\* C13 amended: at the end of a cycle all six timed series are what the harvest
\* phase left, kept or evicted by age at one and the same instant, and that
\* instant is not before the cycle start nor before any sample harvested in the
\* cycle: it is taken after the harvesters have run.
C13_SharedInstant ==
  CycleEnded =>
    /\ cycle_start <= current_instant
    /\ \A t \in HarvestedInstants : t <= current_instant
    /\ \A d \in TimedDomains :
         data[d] = KeptAt(ExpectedField(d), current_instant, filtered_with)

\* A cycle whose filter instant is later than its start evicted an entry that
\* was still within retention when the cycle started, and kept a new sample.
C13_Witness ==
  /\ CycleEnded
  /\ cycle_start < current_instant
  /\ HarvestedInstants # {}
  /\ \E d \in TimedDomains :
       /\ evicted[d] > 0
       /\ KeptAt(ExpectedField(d), cycle_start, filtered_with) # data[d]

\* C14: a cycle that was entered can always take its next step, whatever the
\* harvesters returned; once control is back every harvester has been called and
\* the filter pass has removed every stale entry of every timed series, also
\* when harvesters failed.
C14_PruningNeverBlocked ==
  /\ pc \in Domains => ENABLED Harvest
  /\ pc = "filter" => ENABLED FilterStale
  /\ CycleReturned =>
       /\ cycles > 0
       /\ \A d \in Domains : results[d].done
       /\ \A d \in TimedDomains :
            /\ KeptAt(data[d], current_instant, filtered_with) = data[d]
            /\ evicted[d] = Len(ExpectedField(d)) - Len(data[d])

\* A cycle in which every harvester failed has completed and its filter pass
\* evicted entries of two series.
C14_Witness ==
  /\ CycleEnded
  /\ Failed = Domains
  /\ evicted["network"] > 0
  /\ evicted["memory"] > 0

\* C15 as stated: after a cycle in which the harvester of a timed domain failed
\* the series holds the entries it had whose age is at most the retention, and
\* is empty once its newest entry is older than the retention.
C15_Original ==
  CycleEnded =>
    \A d \in TimedDomains \cap Failed :
      /\ data[d] = SelectSeq(snapshot[d],
                     LAMBDA e : current_instant - e.instant
                                  <= filtered_with * TicksPerSec)
      /\ ( /\ snapshot[d] # <<>>
           /\ current_instant - snapshot[d][Len(snapshot[d])].instant
                > filtered_with * TicksPerSec )
         => data[d] = <<>>

\* C15 amended: after a cycle in which the harvester of a timed domain failed
\* the series has no new entry, holds the entries it had whose age in whole
\* seconds is at most the retention, and is empty once its newest entry is
\* retention + 1 s old or older.
C15_FreezeThenAgeOut ==
  CycleEnded =>
    \A d \in TimedDomains \cap Failed :
      /\ IsSubSeq(data[d], snapshot[d])
      /\ data[d] = KeptAt(snapshot[d], current_instant, filtered_with)
      /\ ( /\ snapshot[d] # <<>>
           /\ current_instant - snapshot[d][Len(snapshot[d])].instant
                >= (filtered_with + 1) * TicksPerSec )
         => data[d] = <<>>

\* Every harvester failed in a second cycle: the network series, whose only
\* entry is a second old, is emptied; the memory series, whose only entry is
\* younger, is left as it was.
C15_Witness ==
  /\ CycleEnded
  /\ Failed = Domains
  /\ snapshot["network"] # <<>>
  /\ data["network"] = <<>>
  /\ snapshot["memory"] # <<>>
  /\ data["memory"] = snapshot["memory"]

C18_SetterOnlyChangesRetention ==
  [][ /\ stale_max_seconds' # stale_max_seconds
        => UNCHANGED << data, sys, delta, pc, cycles >>
      /\ pc = "filter" /\ pc' = "idle"
        => /\ filtered_with' = stale_max_seconds
           /\ \A d \in TimedDomains :
                data'[d] = KeptAt(data[d], current_instant', stale_max_seconds) ]_vars

\* After the retention was lowered from the default to 0 between two cycles, the
\* second cycle's filter pass used 0 and evicted entries of two series.
C18_Witness ==
  /\ CycleEnded
  /\ cycles = 2
  /\ stale_max_seconds = 0
  /\ filtered_with = 0
  /\ snapshot["network"] # <<>>
  /\ snapshot["memory"] # <<>>
  /\ evicted["network"] > 0
  /\ evicted["memory"] > 0

\* The position of a harvest statement in update_data.
StatementIndex(d) == CHOOSE i \in 1..Len(HarvestOrder) : HarvestOrder[i] = d

\* The harvest statements update_data has executed when control is at pc.
Executed ==
  IF pc \in Domains
  THEN { HarvestOrder[i] : i \in 1..(StatementIndex(pc) - 1) }
  ELSE IF pc = "filter" \/ CycleEnded THEN Domains ELSE {}

\* C19: inside a cycle the system handle is as the refresh at cycle entry left
\* it; the harvesters that have been called are exactly the statements before
\* the current one, in source order; every sample harvested in the cycle was
\* taken at or after the refresh; and the filter pass runs after the last
\* harvester, at an instant no earlier than any harvested sample.
C19_RefreshHarvestPruneOrder ==
  /\ pc # "idle" => sys = refresh(cycle_start)
  /\ { d \in Domains : results[d].done } = Executed
  /\ \A t \in HarvestedInstants : sys.system <= t /\ sys.network <= t
  /\ CycleEnded =>
       /\ sys = refresh(cycle_start)
       /\ \A t \in HarvestedInstants : t <= current_instant

\* The harvest phase of a first cycle is over, the clock has advanced since the
\* refresh, all nine harvesters have been called and the filter has not run.
C19_Witness ==
  /\ pc = "filter"
  /\ cycles = 0
  /\ cycle_start < clock
  /\ sys = refresh(cycle_start)
  /\ Succeeded # {}
  /\ Failed # {}
  /\ \A d \in Domains : results[d].done

\* C20: after a draw_basic_network call the map has the widget ids it had and
\* every entry other than the one of widget_id is as it was; when
\* should_get_widget_bounds() was true and the map had an entry for widget_id,
\* that entry's corners are (x, y) and (x + width, y + height) of draw_loc;
\* otherwise the whole map is as it was.
C20_WidgetBoundsWriteBack ==
  last_draw.called =>
    LET id     == last_draw.widget_id
        loc    == last_draw.draw_loc
        before == last_draw.before
    IN  /\ DOMAIN widget_map = DOMAIN before
        /\ \A w \in DOMAIN before \ {id} : widget_map[w] = before[w]
        /\ IF last_draw.should_get_widget_bounds /\ id \in DOMAIN before
           THEN /\ widget_map[id].top_left_corner = Some(<< loc.x, loc.y >>)
                /\ widget_map[id].bottom_right_corner =
                     Some(<< loc.x + loc.width, loc.y + loc.height >>)
           ELSE widget_map = before

\* A call with bounds wanted rewrote the corners of an entry that had other
\* corners, next to another widget's entry whose corners are set.
C20_Witness ==
  /\ last_draw.called
  /\ last_draw.should_get_widget_bounds
  /\ last_draw.widget_id \in DOMAIN last_draw.before
  /\ last_draw.draw_loc.width > 0
  /\ last_draw.before[last_draw.widget_id].top_left_corner.some
  /\ widget_map # last_draw.before
  /\ \E w \in DOMAIN widget_map \ {last_draw.widget_id} :
       widget_map[w].bottom_right_corner.some

====
